---- MODULE Spec2Model ----
(***************************************************************************)
(* Perceptual Video Enhancer: the per-video WebGL session (VideoProcessor, *)
(* content/video-processor.js) and the content script that attaches and    *)
(* detaches sessions (video detector).                                     *)
(*                                                                         *)
(* Scheduling follows the browser event loop: a handler runs to its first  *)
(* await; the continuation of an await is a microtask; microtasks run in   *)
(* FIFO order and the queue is drained before the next task (an extension  *)
(* message, a media event, an animation frame callback) is taken.  Page    *)
(* script may change the DOM between two microtasks (from a promise, an    *)
(* event listener or a mutation observer callback of its own).             *)
(***************************************************************************)
EXTENDS Integers, Sequences, FiniteSets, TLC

\* ------------------------------------------------------------------ bounds

\* number of VideoProcessor objects a behaviour may construct
MaxProcs == 3

\* number of page and media events (insertions, removals, scrolling, media
\* state changes) a behaviour of the detector model may hold
MaxPageEvents == 3

\* number of STATE_CHANGED messages a behaviour of the detector model may hold
MaxMessages == 2

\* number of direct enableProcessing calls a behaviour of the call model may
\* hold
MaxCalls == 2

\* number of tabs that chrome.tabs.query returns in the background model
MaxTabs == 2

\* number of SET_ENABLED and SET_PRESET messages a behaviour of the background
\* model may hold
MaxRequests == 2

\* destroy() calls on one object that are told apart
MaxDestroys == 3

\* seconds the page's clock may advance in the clock model
MaxSeconds == 2

Procs == 1..MaxProcs

\* the video elements of the page, in document order
VideoOrder == <<"a", "b">>

Videos == {VideoOrder[i] : i \in 1..Len(VideoOrder)}

\* ------------------------------------------------------- program constants

HAVE_METADATA == 1

HAVE_CURRENT_DATA == 2

\* canvas size used when the video reports no intrinsic size
FallbackWidth == 1920

FallbackHeight == 1080

\* intensities are held in hundredths: 0.15 is 15
DefaultPreset == [debanding |-> 50, smoothing |-> 30, sharpening |-> 15]

\* the preset table of the background state
PresetTable ==
  [ clean |-> [debanding |-> 10, smoothing |-> 0, sharpening |-> 0],
    lowbitrate |-> [debanding |-> 50, smoothing |-> 30, sharpening |-> 15],
    anime |-> [debanding |-> 70, smoothing |-> 40, sharpening |-> 5] ]

PresetKeys == {"clean", "lowbitrate", "anime"}

\* preset keys a SET_PRESET message may carry: the table's keys and a key
\* that is not in the table
PresetInputs == PresetKeys \cup {"bogus"}

PresetValues == {PresetTable[k] : k \in PresetKeys} \cup {DefaultPreset}

\* names every object inherits from Object.prototype; one stands for all
InheritedKeys == {"constructor"}

\* presets["constructor"]: the function Object, which has none of the
\* intensity properties
ObjectMember == [name |-> "Object"]

\* ------------------------------------------------------------ video element

\* what the media pipeline reports for a video: readyState and intrinsic size
MediaNothing == [readyState |-> 0, videoWidth |-> 0, videoHeight |-> 0]

MediaMeta == [readyState |-> HAVE_METADATA, videoWidth |-> 640, videoHeight |-> 360]

MediaData == [readyState |-> HAVE_CURRENT_DATA, videoWidth |-> 640, videoHeight |-> 360]

MediaDataHD == [readyState |-> HAVE_CURRENT_DATA, videoWidth |-> 1280, videoHeight |-> 720]

\* decoded data of a stream without a picture (intrinsic size 0 x 0)
MediaDataNoPicture == [readyState |-> HAVE_CURRENT_DATA, videoWidth |-> 0, videoHeight |-> 0]

\* media states a session is driven with
SessionMedia == {MediaNothing, MediaMeta, MediaData, MediaDataHD, MediaDataNoPicture}

\* values of the CSS position property of the video's parent element
ParentPositions == {"static", "relative", "absolute"}

\* inDoc: the element is in document.body; shown: its box is not empty and
\* intersects the viewport when it is laid out; mediaKeys: EME keys attached;
\* parentPosition: getComputedStyle(parent).position of the element that is
\* the video's parent while the video is in the document; clientWidth: the
\* width of the element's box; droppedPct: dropped frames of
\* getVideoPlaybackQuality() in percent of the total
NewVideo ==
  [ inDoc |-> FALSE, media |-> MediaNothing, shown |-> TRUE, mediaKeys |-> FALSE,
    parentPosition |-> "static", clientWidth |-> 640, droppedPct |-> 0 ]

\* a || b of JavaScript on numbers
OrElse(x, d) == IF x = 0 THEN d ELSE x

\* ------------------------------------------------------------ VideoProcessor

GpuObjects == {"vertexShader", "fragmentShader", "program", "texture",
               "positionBuffer", "texCoordBuffer"}

\* outcomes of init(): success, getContext returning null, a shader compile
\* error, a program link error
InitOutcomes == {"ok", "nogl", "vertex", "fragment", "link"}

\* What a run of processFrame did: n is 0 until one has run and alternates
\* between 1 and 2 from run to run; resized: the canvas was resized and
\* gl.viewport called; uploads, draws: texImage2D and drawArrays calls;
\* uniforms: the intensities bound as u_debanding, u_smoothing, u_sharpening;
\* time: the value bound as u_time, in thousandths of a second (-1: none);
\* w, h: the video's intrinsic size as the run read it.
NoUniforms == [debanding |-> -1, smoothing |-> -1, sharpening |-> -1]

NoTick ==
  [ n |-> 0, resized |-> FALSE, uploads |-> 0, draws |-> 0, uniforms |-> NoUniforms,
    time |-> -1, w |-> 0, h |-> 0 ]

\* A slot of the object table that holds no VideoProcessor yet.
\* Fields that mirror the class: video, canvas, gl, program, texture (TRUE is
\* a reference, FALSE is null), animationId, isProcessing, preset, options
\* (its preset).
\* attached: the canvas element has a parent; cw, ch: canvas.width/height;
\* pointerEvents: the pointer-events property of the canvas element's style;
\* raf: animation frame callbacks of this object the browser still holds;
\* animationId: "null", "live" (names a held callback) or "fired";
\* gpu: GPU objects created on this object's context and not deleted;
\* phase: "free", "new", "compiling" (init awaits compileShaders), "ready"
\* (init resolved), "failed" (init rejected); rejects: compileShaders threw;
\* tickGpu: processFrame issued a GL call since the last stop();
\* cancelled: the last stop() cancelled a callback the browser held;
\* destroyed: destroy() has been called; threw: the last call threw;
\* destroys: number of destroy() calls so far, up to MaxDestroys;
\* tick: what the last run of processFrame since the last stop() did.
FreeProc ==
  [ phase |-> "free", rejects |-> FALSE, video |-> "none",
    canvas |-> FALSE, attached |-> FALSE, cw |-> 0, ch |-> 0,
    gl |-> FALSE, program |-> FALSE, texture |-> FALSE,
    pointerEvents |-> "", animationId |-> "null", raf |-> 0, isProcessing |-> FALSE,
    preset |-> DefaultPreset, options |-> DefaultPreset, gpu |-> {},
    tickGpu |-> FALSE, cancelled |-> FALSE, destroyed |-> FALSE, threw |-> FALSE,
    destroys |-> 0, tick |-> NoTick ]

\* new VideoProcessor(video, {preset})
NewVideoProcessor(v, preset) ==
  [FreeProc EXCEPT !.phase = "new", !.video = v, !.options = preset, !.preset = preset]

\* positionCanvas() that makes the parent relative whatever its position is
positionParentAlways(V) ==
  IF V.inDoc THEN [V EXCEPT !.parentPosition = "relative"] ELSE V

\* positionCanvas(), its effect on the video's parent: a parent whose computed
\* position is static gets position relative
positionParent(V) ==
  IF V.inDoc /\ V.parentPosition = "static"
  THEN [V EXCEPT !.parentPosition = "relative"]
  ELSE V

\* positionCanvas(): video.after(canvas) inserts the canvas when the video has
\* a parent; the canvas takes the video's intrinsic size or the fallback
positionCanvas(P, V) ==
  [P EXCEPT !.attached = V.inDoc,
            !.cw = OrElse(V.media.videoWidth, FallbackWidth),
            !.ch = OrElse(V.media.videoHeight, FallbackHeight)]

\* compileShaders(): runs to its end or to its throw without suspending
compileShaders(P, outcome) ==
  CASE outcome = "vertex" ->
         [P EXCEPT !.gpu = @ \cup {"vertexShader"}, !.rejects = TRUE]
    [] outcome = "fragment" ->
         [P EXCEPT !.gpu = @ \cup {"vertexShader", "fragmentShader"}, !.rejects = TRUE]
    [] outcome = "link" ->
         [P EXCEPT !.gpu = @ \cup {"vertexShader", "fragmentShader", "program"},
                   !.program = TRUE, !.rejects = TRUE]
    [] OTHER ->
         [P EXCEPT !.gpu = @ \cup {"vertexShader", "fragmentShader", "program"},
                   !.program = TRUE]

\* init() up to its await: canvas created and positioned, context requested,
\* compileShaders() called
initSync(P, V, outcome) ==
  LET P1 == positionCanvas([P EXCEPT !.canvas = TRUE, !.pointerEvents = "none"], V) IN
  IF outcome = "nogl"
  THEN [P1 EXCEPT !.phase = "failed", !.threw = TRUE]
  ELSE [compileShaders([P1 EXCEPT !.gl = TRUE], outcome) EXCEPT !.phase = "compiling"]

\* createTexture()
createTexture(P) ==
  [P EXCEPT !.texture = TRUE, !.gpu = @ \cup {"texture"}]

\* setupGeometry()
setupGeometry(P) ==
  [P EXCEPT !.gpu = @ \cup {"positionBuffer", "texCoordBuffer"}]

\* init() after its await: rethrows a compile or link error, else creates the
\* texture and the geometry and resolves
initCont(P) ==
  IF P.rejects
  THEN [P EXCEPT !.phase = "failed", !.threw = TRUE]
  ELSE [setupGeometry(createTexture(P)) EXCEPT !.phase = "ready"]

\* setPreset(preset) that also halts the loop
setPresetHalts(P, preset) == [P EXCEPT !.preset = preset, !.isProcessing = FALSE]

\* setPreset(preset)
setPreset(P, preset) == [P EXCEPT !.preset = preset]

\* requestAnimationFrame(() => this.processFrame())
scheduleFrame(P) ==
  [P EXCEPT !.animationId = "live", !.raf = @ + 1]

\* the record of a run of processFrame on P; now is performance.now() in
\* milliseconds, and now * 0.001 seconds is now thousandths of a second
tickOf(P, V, now, resize, upload, uniforms) ==
  [ n |-> IF P.tick.n = 1 THEN 2 ELSE 1,
    resized |-> resize,
    uploads |-> IF upload THEN 1 ELSE 0,
    draws |-> IF upload THEN 1 ELSE 0,
    uniforms |-> IF upload THEN uniforms ELSE NoUniforms,
    time |-> IF upload THEN now ELSE -1,
    w |-> V.media.videoWidth, h |-> V.media.videoHeight ]

\* this.preset.x || 0, where a missing property reads as undefined
intensityOf(preset, x) ==
  IF x \in DOMAIN preset THEN OrElse(preset[x], 0) ELSE 0

\* this.preset.x || 0 for the three intensities
uniformsOf(preset) ==
  [ debanding |-> intensityOf(preset, "debanding"),
    smoothing |-> intensityOf(preset, "smoothing"),
    sharpening |-> intensityOf(preset, "sharpening") ]

\* processFrame() that asks for the next frame only after it has drawn
processFrameWaits(P, V, now) ==
  IF ~P.isProcessing THEN P
  ELSE IF ~P.canvas THEN [P EXCEPT !.threw = TRUE]
  ELSE
    LET resize == P.cw # V.media.videoWidth \/ P.ch # V.media.videoHeight
        P1 == IF resize
              THEN [P EXCEPT !.cw = OrElse(V.media.videoWidth, FallbackWidth),
                             !.ch = OrElse(V.media.videoHeight, FallbackHeight)]
              ELSE P
        upload == V.media.readyState >= HAVE_CURRENT_DATA
        P2 == [P1 EXCEPT !.tickGpu = @ \/ resize \/ upload,
                         !.tick = tickOf(P, V, now, resize, upload, uniformsOf(P.preset))]
    IN IF (resize \/ upload) /\ ~P.gl
       THEN [P1 EXCEPT !.threw = TRUE]
       ELSE IF upload THEN scheduleFrame(P2) ELSE P2

\* processFrame() that binds u_smoothing from the constructor's default
processFrameStale(P, V, now) ==
  IF ~P.isProcessing THEN P
  ELSE IF ~P.canvas THEN [P EXCEPT !.threw = TRUE]
  ELSE
    LET resize == P.cw # V.media.videoWidth \/ P.ch # V.media.videoHeight
        P1 == IF resize
              THEN [P EXCEPT !.cw = OrElse(V.media.videoWidth, FallbackWidth),
                             !.ch = OrElse(V.media.videoHeight, FallbackHeight)]
              ELSE P
        upload == V.media.readyState >= HAVE_CURRENT_DATA
        bound == [uniformsOf(P.preset) EXCEPT !.smoothing = DefaultPreset.smoothing]
    IN IF (resize \/ upload) /\ ~P.gl
       THEN [P1 EXCEPT !.threw = TRUE]
       ELSE scheduleFrame([P1 EXCEPT !.tickGpu = @ \/ resize \/ upload,
                                     !.tick = tickOf(P, V, now, resize, upload, bound)])

\* processFrame(): one tick
processFrame(P, V, now) ==
  IF ~P.isProcessing THEN P
  ELSE IF ~P.canvas THEN [P EXCEPT !.threw = TRUE]
  ELSE
    LET resize == P.cw # V.media.videoWidth \/ P.ch # V.media.videoHeight
        P1 == IF resize
              THEN [P EXCEPT !.cw = OrElse(V.media.videoWidth, FallbackWidth),
                             !.ch = OrElse(V.media.videoHeight, FallbackHeight)]
              ELSE P
        upload == V.media.readyState >= HAVE_CURRENT_DATA
    IN IF (resize \/ upload) /\ ~P.gl
       THEN [P1 EXCEPT !.threw = TRUE]
       ELSE scheduleFrame([P1 EXCEPT !.tickGpu = @ \/ resize \/ upload,
                                     !.tick = tickOf(P, V, now, resize, upload,
                                                     uniformsOf(P.preset))])

\* start() without its isProcessing guard
startUnguarded(P, V, now) == processFrame([P EXCEPT !.isProcessing = TRUE], V, now)

\* start()
start(P, V, now) ==
  IF P.isProcessing THEN P
  ELSE processFrame([P EXCEPT !.isProcessing = TRUE], V, now)

\* stop() without its cancelAnimationFrame call
stopKeepsFrame(P) ==
  [P EXCEPT !.isProcessing = FALSE,
            !.animationId = "null",
            !.cancelled = FALSE,
            !.tickGpu = FALSE,
            !.tick = NoTick]

\* stop() that also deletes the texture
stopReleases(P) ==
  [P EXCEPT !.isProcessing = FALSE,
            !.raf = IF P.animationId = "live" THEN @ - 1 ELSE @,
            !.animationId = "null",
            !.cancelled = (P.animationId = "live"),
            !.tickGpu = FALSE,
            !.tick = NoTick,
            !.gpu = @ \ {"texture"},
            !.texture = FALSE]

\* stop()
stop(P) ==
  [P EXCEPT !.isProcessing = FALSE,
            !.raf = IF P.animationId = "live" THEN @ - 1 ELSE @,
            !.animationId = "null",
            !.cancelled = (P.animationId = "live"),
            !.tickGpu = FALSE,
            !.tick = NoTick]

\* destroy() without its canvas.remove() call
destroyKeepsCanvas(P) ==
  LET S == stop(P) IN
  [S EXCEPT !.gpu = IF S.gl THEN @ \ {"texture", "program"} ELSE @,
            !.canvas = FALSE, !.gl = FALSE, !.program = FALSE, !.texture = FALSE,
            !.destroyed = TRUE,
            !.destroys = IF @ < MaxDestroys THEN @ + 1 ELSE @]

\* destroy() without its null checks: canvas.remove() and the deletes are
\* called whatever canvas and gl hold
destroyUnguarded(P) ==
  LET S == stop(P) IN
  [S EXCEPT !.attached = FALSE,
            !.gpu = @ \ {"texture", "program"},
            !.threw = ~S.canvas \/ ~S.gl,
            !.canvas = FALSE, !.gl = FALSE, !.program = FALSE, !.texture = FALSE,
            !.destroyed = TRUE,
            !.destroys = IF @ < MaxDestroys THEN @ + 1 ELSE @]

\* destroy()
destroy(P) ==
  LET S == stop(P) IN
  [S EXCEPT !.attached = IF S.canvas THEN FALSE ELSE @,
            !.gpu = IF S.gl THEN @ \ {"texture", "program"} ELSE @,
            !.canvas = FALSE, !.gl = FALSE, !.program = FALSE, !.texture = FALSE,
            !.destroyed = TRUE,
            !.destroys = IF @ < MaxDestroys THEN @ + 1 ELSE @]

\* the browser runs one held animation frame callback of P
runFrame(P, V, now) ==
  processFrame([P EXCEPT !.raf = @ - 1,
                         !.animationId = IF @ = "live" /\ P.raf = 1 THEN "fired" ELSE @,
                         !.threw = FALSE], V, now)

\* ---------------------------------------------------------- fragment shader

\* Colours and the values computed from them are fixed-point numbers in
\* thousandths (1.0 is Unit), which is about the resolution of a mediump
\* float; intensities are in hundredths as in the presets.  Divisions round
\* down.
Unit == 1000

Channels == {"r", "g", "b"}

Grey(x) == [ch \in Channels |-> x]

\* texel colours the shader is run on: the corners of the colour cube and
\* mid grey
TexelColours ==
  [Channels -> {0, Unit}] \cup {Grey(Unit \div 2)}

\* The texture around the fragment is a checkerboard of the colours a (the
\* fragment's own texel and its diagonal neighbours) and b (the neighbours
\* above, below, left and right); a = b is a texture of uniform colour.
\* texture2D(u_texture, uv + vec2(dx, dy) * texelSize).rgb
texture2D(T, dx, dy) == IF (dx + dy) % 2 = 0 THEN T.a ELSE T.b

\* the texture as the fragment one texel away sees it
Shifted(T) == [a |-> T.b, b |-> T.a]

\* values of rand(): fract() of a hash of the fragment's position and u_time
RandValues == {0, Unit \div 2, Unit - 1}

\* blueNoise(): n = (rand - 0.5) * 2.0
blueNoise(rnd) == (rnd - Unit \div 2) * 2

\* getLuma(): dot(color, vec3(0.299, 0.587, 0.114)), in millionths
getLuma(color) == 299 * color["r"] + 587 * color["g"] + 114 * color["b"]

Abs(x) == IF x < 0 THEN -x ELSE x

Min(x, y) == IF x < y THEN x ELSE y

\* exp(-k / 4) in thousandths
RECURSIVE ExpQuarters(_)
ExpQuarters(k) == IF k = 0 THEN Unit ELSE (ExpQuarters(k - 1) * 779) \div Unit

\* exp(-x) for x >= 0 given in millionths: exp(-k/4) * exp(-r) with
\* 0 <= r < 1/4 and exp(-r) from its series up to the cubic term
Exp(x) ==
  LET k == x \div 250000
      r == (x % 250000) \div Unit
      tail == Unit - r + (r * r) \div (2 * Unit) - (r * r * r) \div (6 * Unit * Unit)
  IN (ExpQuarters(k) * tail) \div Unit

\* the offsets of the eight neighbours smoothPixel samples
Neighbours == {o \in {-1, 0, 1} \X {-1, 0, 1} : o # <<0, 0>>}

RECURSIVE SumOver(_, _)
SumOver(f, S) ==
  IF S = {} THEN 0 ELSE LET x == CHOOSE y \in S : TRUE IN f[x] + SumOver(f, S \ {x})

\* smoothPixel() that returns the weighted sum without dividing by weightSum
smoothPixelSum(T, centerColor) ==
  LET centerLuma == getLuma(centerColor)
      weight == [o \in Neighbours |->
                   LET lumaDiff == Abs(centerLuma - getLuma(texture2D(T, o[1], o[2])))
                   IN Exp(lumaDiff * 10) \div 2]
  IN [ch \in Channels |->
        (centerColor[ch] * Unit
           + SumOver([o \in Neighbours |-> texture2D(T, o[1], o[2])[ch] * weight[o]],
                     Neighbours))
        \div Unit]

\* smoothPixel(uv, centerColor): the luma-weighted average of centerColor and
\* the eight texels around uv
smoothPixel(T, centerColor) ==
  LET centerLuma == getLuma(centerColor)
      weight == [o \in Neighbours |->
                   LET lumaDiff == Abs(centerLuma - getLuma(texture2D(T, o[1], o[2])))
                   IN Exp(lumaDiff * 10) \div 2]
      weightSum == Unit + SumOver(weight, Neighbours)
  IN [ch \in Channels |->
        (centerColor[ch] * Unit
           + SumOver([o \in Neighbours |-> texture2D(T, o[1], o[2])[ch] * weight[o]],
                     Neighbours))
        \div weightSum]

\* mix(x, y, a) with a = num / den
mix(x, y, num, den) ==
  [ch \in Channels |-> (x[ch] * (den - num) + y[ch] * num) \div den]

RECURSIVE SqrtBetween(_, _, _)
SqrtBetween(x, lo, hi) ==
  IF lo = hi THEN lo
  ELSE LET mid == (lo + hi + 1) \div 2 IN
       IF mid * mid <= x THEN SqrtBetween(x, mid, hi) ELSE SqrtBetween(x, lo, mid - 1)

\* length(v)
length(v) ==
  SqrtBetween(v["r"] * v["r"] + v["g"] * v["g"] + v["b"] * v["b"], 0, 4 * Unit)

\* sharpen(uv, color): unsharp mask against the four texels around uv
sharpen(T, color, u_sharpening) ==
  LET up == texture2D(T, 0, -1)
      down == texture2D(T, 0, 1)
      left == texture2D(T, -1, 0)
      right == texture2D(T, 1, 0)
      neighbors == [ch \in Channels |-> (up[ch] + down[ch] + left[ch] + right[ch]) \div 4]
      delta == [ch \in Channels |-> color[ch] - neighbors[ch]]
      sharpened == [ch \in Channels |-> color[ch] + (delta[ch] * u_sharpening) \div 100]
      edgeStrength == length(delta)
      adaptive == Unit - Min(edgeStrength * 2, Unit \div 2)
  IN mix(color, sharpened, adaptive, Unit)

\* clamp(color, 0.0, 1.0)
clamp(color) ==
  [ch \in Channels |-> IF color[ch] < 0 THEN 0 ELSE IF color[ch] > Unit THEN Unit
                       ELSE color[ch]]

\* the debanding stage of main(): noise = blueNoise * u_debanding * 0.02
deband(color, rnd, u_debanding) ==
  IF u_debanding > 0
  THEN [ch \in Channels |-> color[ch] + (blueNoise(rnd) * u_debanding * 2) \div 10000]
  ELSE color

\* a smoothing stage that returns smoothPixel's average at any intensity
smoothFull(T, color, u_smoothing) == smoothPixel(T, color)

\* the smoothing stage of main(): mix(color, smoothed, u_smoothing * 0.5)
smooth(T, color, u_smoothing) ==
  IF u_smoothing > 0
  THEN mix(color, smoothPixel(T, color), u_smoothing, 200)
  ELSE color

\* the sharpening stage of main()
sharp(T, color, u_sharpening) ==
  IF u_sharpening > 0 THEN sharpen(T, color, u_sharpening) ELSE color

\* main() without its final clamp
mainUnclamped(T, rnd, u) ==
  sharp(T, smooth(T, deband(texture2D(T, 0, 0), rnd, u.debanding), u.smoothing),
        u.sharpening)

\* main(): gl_FragColor.rgb
main(T, rnd, u) ==
  clamp(sharp(T, smooth(T, deband(texture2D(T, 0, 0), rnd, u.debanding), u.smoothing),
              u.sharpening))

\* no draw call is in progress
NoFragment ==
  [ drawn |-> FALSE, tex |-> [a |-> Grey(0), b |-> Grey(0)], rnd |-> 0,
    uniforms |-> NoUniforms, out |-> Grey(0) ]

\* ------------------------------------------------------------------- state

VARIABLES
  videos,           \* the page's video elements
  procs,            \* the VideoProcessor objects constructed so far
  tasks,            \* the enableProcessing call that constructed each object
  processedVideos,  \* the detector's per-video table
  extensionState,   \* the content script's copy of the settings
  microtasks,       \* the microtask queue, oldest first
  addedNodes,       \* videos in the pending records of the observeDOM observer
  metaListeners,    \* videos with a once-listener for loadedmetadata
  endListeners,     \* videos with listeners for ended and emptied
  failedVideos,     \* videos whose session creation failed since the last disable
  hostDRM,          \* the page's hostname is on the DRM domain list
  used,             \* page events, messages and direct calls taken so far
  bg,               \* the background service worker and the browser's tabs
  clock,            \* performance.now() of the page, in milliseconds
  frag              \* the fragment the shader program is run on

vars == <<videos, procs, tasks, processedVideos, extensionState, microtasks,
          addedNodes, metaListeners, endListeners, failedVideos, hostDRM, used, bg,
          clock, frag>>

\* the state as one value, for handlers that call one another
Now ==
  [ videos |-> videos, procs |-> procs, tasks |-> tasks, table |-> processedVideos,
    ext |-> extensionState, mq |-> microtasks, added |-> addedNodes,
    metaL |-> metaListeners, endL |-> endListeners, failed |-> failedVideos,
    hostDRM |-> hostDRM, clock |-> clock, overflow |-> FALSE ]

\* the state a handler leaves; a handler that would construct more objects
\* than MaxProcs is not taken
Becomes(st) ==
  /\ ~st.overflow
  /\ videos' = st.videos
  /\ procs' = st.procs
  /\ tasks' = st.tasks
  /\ processedVideos' = st.table
  /\ extensionState' = st.ext
  /\ microtasks' = st.mq
  /\ addedNodes' = st.added
  /\ metaListeners' = st.metaL
  /\ endListeners' = st.endL
  /\ failedVideos' = st.failed
  /\ hostDRM' = st.hostDRM
  /\ UNCHANGED <<bg, clock, frag>>
  /\ UNCHANGED used

\* a page or media event, within the bound
PageEvent(st) ==
  /\ used.page < MaxPageEvents
  /\ ~st.overflow
  /\ videos' = st.videos
  /\ procs' = st.procs
  /\ tasks' = st.tasks
  /\ processedVideos' = st.table
  /\ extensionState' = st.ext
  /\ microtasks' = st.mq
  /\ addedNodes' = st.added
  /\ metaListeners' = st.metaL
  /\ endListeners' = st.endL
  /\ failedVideos' = st.failed
  /\ hostDRM' = st.hostDRM
  /\ UNCHANGED <<bg, clock, frag>>
  /\ used' = [used EXCEPT !.page = @ + 1]

\* a message from the background, within the bound
MessageEvent(st) ==
  /\ used.messages < MaxMessages
  /\ ~st.overflow
  /\ videos' = st.videos
  /\ procs' = st.procs
  /\ tasks' = st.tasks
  /\ processedVideos' = st.table
  /\ extensionState' = st.ext
  /\ microtasks' = st.mq
  /\ addedNodes' = st.added
  /\ metaListeners' = st.metaL
  /\ endListeners' = st.endL
  /\ failedVideos' = st.failed
  /\ hostDRM' = st.hostDRM
  /\ UNCHANGED <<bg, clock, frag>>
  /\ used' = [used EXCEPT !.messages = @ + 1]

\* a direct call of a detector function, within the bound
CallEvent(st) ==
  /\ used.calls < MaxCalls
  /\ ~st.overflow
  /\ videos' = st.videos
  /\ procs' = st.procs
  /\ tasks' = st.tasks
  /\ processedVideos' = st.table
  /\ extensionState' = st.ext
  /\ microtasks' = st.mq
  /\ addedNodes' = st.added
  /\ metaListeners' = st.metaL
  /\ endListeners' = st.endL
  /\ failedVideos' = st.failed
  /\ hostDRM' = st.hostDRM
  /\ UNCHANGED <<bg, clock, frag>>
  /\ used' = [used EXCEPT !.calls = @ + 1]

\* ------------------------------------------------------------ video detector

\* info.quality is null or absent
NoQuality == [score |-> -1, preset |-> "none"]

\* processedVideos.get(video) is undefined
NoInfo == [has |-> FALSE, drm |-> FALSE, processor |-> 0, quality |-> NoQuality]

\* { drm: true }
DrmInfo == [has |-> TRUE, drm |-> TRUE, processor |-> 0, quality |-> NoQuality]

\* { processor: null, quality: null, drm: false }
FreshInfo == [has |-> TRUE, drm |-> FALSE, processor |-> 0, quality |-> NoQuality]

\* gatherMetrics(video): the metrics calculateScore reads
gatherMetrics(V) ==
  [ videoWidth |-> V.media.videoWidth,
    displayWidth |-> V.clientWidth,
    droppedPct |-> V.droppedPct,
    isUpscaled |-> V.clientWidth > 0 /\ V.media.videoWidth > 0
                   /\ 10 * V.media.videoWidth < 9 * V.clientWidth ]

\* calculateScore(metrics): 100 less the penalties, rounded as Math.round
\* does and clamped to 0..100.  The upscale penalty is
\* min(50, (upscaleFactor - 1) * 30) = min(50, 30 * (display - video) / video).
calculateScore(metrics) ==
  LET vw == metrics.videoWidth
      num == IF metrics.isUpscaled THEN 30 * (metrics.displayWidth - vw) ELSE 0
      capped == metrics.isUpscaled /\ num >= 50 * vw
      low == IF vw > 0
             THEN IF vw < 480 THEN 25 ELSE IF vw < 720 THEN 15
                  ELSE IF vw < 1080 THEN 5 ELSE 0
             ELSE 0
      dropped == IF metrics.droppedPct > 5
                 THEN IF metrics.droppedPct < 20 THEN metrics.droppedPct ELSE 20
                 ELSE 0
      whole == 100 - low - dropped
      rounded == IF ~metrics.isUpscaled THEN whole
                 ELSE IF capped THEN whole - 50
                 ELSE (2 * whole * vw - 2 * num + vw) \div (2 * vw)
  IN IF rounded < 0 THEN 0 ELSE IF rounded > 100 THEN 100 ELSE rounded

\* recommendPreset(score, metrics)
recommendPreset(score) == IF score >= 80 THEN "clean" ELSE "lowbitrate"

\* VideoQualityEstimator.estimate(video)
estimate(V) ==
  LET score == calculateScore(gatherMetrics(V))
  IN [score |-> score, preset |-> recommendPreset(score)]

\* an enableProcessing call: pc is "none", "await" (suspended at await
\* processor.init()), "done" or "failed"; stale: the info object the call
\* holds is no longer the table's entry for its video
NoTask == [pc |-> "none", stale |-> FALSE]

\* isVisible(element): a detached element has an empty box
isVisible(V) == V.inDoc /\ V.shown

\* isVideoValid(video)
isVideoValid(V) ==
  /\ V.media.videoWidth > 0
  /\ V.media.videoHeight > 0
  /\ V.media.readyState >= HAVE_METADATA
  /\ isVisible(V)

\* VideoQualityEstimator.isLikelyDRM(video)
isLikelyDRM(V, host) == V.mediaKeys \/ host

\* getPresetSettings(): presets[presetKey] || default, where presets is the
\* table of the state or {} and a key the object does not own is looked up
\* in Object.prototype
getPresetSettings(ext) ==
  LET presetKey == IF ext.preset = "" THEN "lowbitrate" ELSE ext.preset IN
  IF ext.presets /\ presetKey \in PresetKeys THEN PresetTable[presetKey]
  ELSE IF presetKey \in InheritedKeys THEN ObjectMember
  ELSE DefaultPreset

\* a DOM mutation under document.body queues the mutation observer microtask
\* unless one is queued
queueObservers(st) ==
  IF \E i \in 1..Len(st.mq) : st.mq[i].k = "observers"
  THEN st
  ELSE [st EXCEPT !.mq = Append(@, [k |-> "observers", p |-> 0])]

FreeSlots(ps) == {p \in Procs : ps[p].phase = "free"}

\* enableProcessing(video) without the info.processor test of its guard
enableProcessingAgain(st, v, outcome) ==
  LET info == st.table[v] IN
  IF ~info.has \/ info.drm THEN st
  ELSE IF FreeSlots(st.procs) = {} THEN [st EXCEPT !.overflow = TRUE]
  ELSE
    LET p == CHOOSE q \in FreeSlots(st.procs) : \A r \in FreeSlots(st.procs) : q <= r
        P == initSync(NewVideoProcessor(v, getPresetSettings(st.ext)),
                      st.videos[v], outcome)
        s1 == [st EXCEPT !.procs[p] = P,
                         !.videos[v] = positionParent(@),
                         !.tasks[p] = [pc |-> "await", stale |-> FALSE]]
        s2 == IF P.attached THEN queueObservers(s1) ELSE s1
    IN [s2 EXCEPT !.mq = Append(@, [k |-> IF P.phase = "failed" THEN "enable" ELSE "init",
                                     p |-> p])]

\* enableProcessing(video) that takes the preset the estimator recommends
enableProcessingAdvised(st, v, outcome) ==
  LET info == st.table[v] IN
  IF ~info.has \/ info.drm \/ info.processor # 0 THEN st
  ELSE IF FreeSlots(st.procs) = {} THEN [st EXCEPT !.overflow = TRUE]
  ELSE
    LET p == CHOOSE q \in FreeSlots(st.procs) : \A r \in FreeSlots(st.procs) : q <= r
        preset == IF info.quality.preset \in PresetKeys
                  THEN PresetTable[info.quality.preset]
                  ELSE getPresetSettings(st.ext)
        P == initSync(NewVideoProcessor(v, preset), st.videos[v], outcome)
        s1 == [st EXCEPT !.procs[p] = P,
                         !.videos[v] = positionParent(@),
                         !.tasks[p] = [pc |-> "await", stale |-> FALSE]]
        s2 == IF P.attached THEN queueObservers(s1) ELSE s1
    IN [s2 EXCEPT !.mq = Append(@, [k |-> IF P.phase = "failed" THEN "enable" ELSE "init",
                                     p |-> p])]

\* enableProcessing(video) up to its await
enableProcessing(st, v, outcome) ==
  LET info == st.table[v] IN
  IF ~info.has \/ info.drm \/ info.processor # 0 THEN st
  ELSE IF FreeSlots(st.procs) = {} THEN [st EXCEPT !.overflow = TRUE]
  ELSE
    LET p == CHOOSE q \in FreeSlots(st.procs) : \A r \in FreeSlots(st.procs) : q <= r
        P == initSync(NewVideoProcessor(v, getPresetSettings(st.ext)),
                      st.videos[v], outcome)
        s1 == [st EXCEPT !.procs[p] = P,
                         !.videos[v] = positionParent(@),
                         !.tasks[p] = [pc |-> "await", stale |-> FALSE]]
        s2 == IF P.attached THEN queueObservers(s1) ELSE s1
    IN [s2 EXCEPT !.mq = Append(@, [k |-> IF P.phase = "failed" THEN "enable" ELSE "init",
                                     p |-> p])]

\* enableProcessing after its await: start the session and record it in the
\* info object the call holds, or land in the catch block
enableProcessingCont(st, p) ==
  LET v == st.procs[p].video IN
  IF st.procs[p].phase = "ready"
  THEN [st EXCEPT !.procs[p] = start([@ EXCEPT !.threw = FALSE], st.videos[v], st.clock),
                  !.table[v].processor = IF st.tasks[p].stale THEN @ ELSE p,
                  !.tasks[p].pc = "done"]
  ELSE [st EXCEPT !.tasks[p].pc = "failed",
                  !.failed = @ \cup {v}]

\* disableProcessing(video)
disableProcessing(st, v) ==
  LET info == st.table[v] IN
  IF ~info.has \/ info.processor = 0 THEN st
  ELSE
    LET P == st.procs[info.processor]
        s1 == [st EXCEPT !.procs[info.processor] = destroy([P EXCEPT !.threw = FALSE]),
                         !.table[v].processor = 0]
    IN IF P.canvas /\ P.attached THEN queueObservers(s1) ELSE s1

\* processVideo(video)
processVideo(st, v, outcome) ==
  IF st.table[v].has THEN st
  ELSE IF ~isVideoValid(st.videos[v]) THEN [st EXCEPT !.metaL = @ \cup {v}]
  ELSE IF isLikelyDRM(st.videos[v], st.hostDRM) THEN [st EXCEPT !.table[v] = DrmInfo]
  ELSE
    LET s1 == [st EXCEPT !.table[v] = [FreshInfo EXCEPT !.quality = estimate(st.videos[v])]]
        s2 == IF s1.ext.enabled THEN enableProcessing(s1, v, outcome) ELSE s1
    IN [s2 EXCEPT !.endL = @ \cup {v}]

\* the body of updateAllVideos's loop for one video of the document
updateVideo(st, v, outcome) ==
  LET info == st.table[v] IN
  IF ~st.videos[v].inDoc \/ ~info.has \/ info.drm THEN st
  ELSE IF st.ext.enabled
  THEN IF info.processor = 0
       THEN enableProcessing(st, v, outcome)
       ELSE [st EXCEPT !.procs[info.processor] =
                          setPreset(@, getPresetSettings(st.ext))]
  ELSE IF info.processor # 0 THEN disableProcessing(st, v) ELSE st

RECURSIVE updateAllVideosAborts(_, _, _)
\* updateAllVideos() whose loop ends at the first video whose session
\* creation fails before init() suspends
updateAllVideosAborts(st, i, outcomes) ==
  IF i > Len(VideoOrder) THEN st
  ELSE LET s1 == updateVideo(st, VideoOrder[i], outcomes[VideoOrder[i]]) IN
       IF \E p \in Procs : st.procs[p].phase = "free" /\ s1.procs[p].phase = "failed"
       THEN s1
       ELSE updateAllVideosAborts(s1, i + 1, outcomes)

RECURSIVE updateAllVideosFrom(_, _, _)
\* updateAllVideos(), from the i-th video of the document on
updateAllVideosFrom(st, i, outcomes) ==
  IF i > Len(VideoOrder) THEN st
  ELSE updateAllVideosFrom(updateVideo(st, VideoOrder[i], outcomes[VideoOrder[i]]),
                           i + 1, outcomes)

updateAllVideos(st, outcomes) == updateAllVideosFrom(st, 1, outcomes)

\* handleMessage for STATE_CHANGED
handleStateChanged(st, state, outcomes) ==
  updateAllVideos([st EXCEPT !.ext = state,
                             !.failed = IF state.enabled THEN @ ELSE {}],
                  outcomes)

RECURSIVE observeDOMFrom(_, _, _)
\* the observeDOM callback: processVideo for the added videos, in record order
observeDOMFrom(st, i, outcomes) ==
  IF i > Len(st.added) THEN [st EXCEPT !.added = <<>>]
  ELSE observeDOMFrom(processVideo(st, st.added[i], outcomes[st.added[i]]),
                      i + 1, outcomes)

RECURSIVE findVideosFrom(_, _, _)
\* findVideos(): processVideo for the videos of the document, in document
\* order, from the i-th on
findVideosFrom(st, i, outcomes) ==
  IF i > Len(VideoOrder) THEN st
  ELSE findVideosFrom(IF st.videos[VideoOrder[i]].inDoc
                      THEN processVideo(st, VideoOrder[i], outcomes[VideoOrder[i]])
                      ELSE st,
                      i + 1, outcomes)

findVideos(st, outcomes) == findVideosFrom(st, 1, outcomes)

\* the removalObserver callback of a video that has one
removalObserver(st, v) ==
  IF st.table[v].has /\ ~st.table[v].drm /\ ~st.videos[v].inDoc
  THEN LET s1 == disableProcessing(st, v) IN
       [s1 EXCEPT !.table[v] = NoInfo,
                  !.tasks = [p \in Procs |->
                               IF s1.procs[p].video = v /\ s1.tasks[p].pc = "await"
                               THEN [s1.tasks[p] EXCEPT !.stale = TRUE]
                               ELSE s1.tasks[p]]]
  ELSE st

RECURSIVE removalObserversFrom(_, _)
removalObserversFrom(st, i) ==
  IF i > Len(VideoOrder) THEN st
  ELSE removalObserversFrom(removalObserver(st, VideoOrder[i]), i + 1)

\* the mutation observer microtask: the observeDOM observer, created first,
\* then the removal observers
notifyObservers(st, outcomes) ==
  removalObserversFrom(observeDOMFrom(st, 1, outcomes), 1)

\* ---------------------------------------------------------------- background

\* extensionState of the service worker when it starts
BackgroundState == [enabled |-> FALSE, preset |-> "lowbitrate"]

Requests == 1..MaxRequests

\* the tab lists chrome.tabs.query may return: TRUE is a tab with an id,
\* FALSE a tab whose id is undefined
TabLists == UNION {[1..n -> BOOLEAN] : n \in 0..MaxTabs}

\* A handleMessage call for SET_ENABLED or SET_PRESET. pc: "none", "query"
\* (notifyAllTabs awaits chrome.tabs.query), "send" (it awaits sendMessage to
\* tab i), "done" (the handler returned ret), "failed" (the handler rejected);
\* type, value: the message; after: stateAfterEnabled or stateAfterPreset;
\* ret: what the handler returned; sent[j]: sendMessage calls to
\* tab j; rejected: tabs whose sendMessage rejected.
NoCall ==
  [ pc |-> "none", type |-> "none", value |-> FALSE, after |-> BackgroundState,
    tabs |-> <<>>,
    i |-> 0, sent |-> <<>>, rejected |-> {}, ret |-> BackgroundState ]

\* setState(updates) with the one field the message carries
setState(S, type, value) ==
  IF type = "SET_ENABLED" THEN [S EXCEPT !.enabled = value]
  ELSE [S EXCEPT !.preset = value]

\* handleMessage for SET_ENABLED and SET_PRESET up to the first await
handleMessage(B, c, type, value) ==
  LET S == setState(B.state, type, value) IN
  [B EXCEPT !.state = S,
            !.calls[c] = [NoCall EXCEPT !.pc = "query", !.type = type, !.value = value,
                                         !.after = S]]

\* the first tab at or after position i that has an id, or Len(tabs) + 1
nextTab(tabs, i) ==
  IF \E j \in i..Len(tabs) : tabs[j]
  THEN CHOOSE j \in i..Len(tabs) : tabs[j] /\ \A k \in i..(j - 1) : ~tabs[k]
  ELSE Len(tabs) + 1

\* the for loop of notifyAllTabs from position i to its next await, or to
\* the end, where handleMessage returns the state it had set
notifyLoop(C, i) ==
  LET j == nextTab(C.tabs, i) IN
  IF j <= Len(C.tabs)
  THEN [C EXCEPT !.i = j, !.sent[j] = @ + 1, !.pc = "send"]
  ELSE [C EXCEPT !.i = j, !.pc = "done", !.ret = C.after]

\* notifyAllTabs after chrome.tabs.query resolved with tabs
notifyAllTabs(C, tabs) ==
  notifyLoop([C EXCEPT !.tabs = tabs, !.sent = [j \in 1..Len(tabs) |-> 0]], 1)

\* the sendMessage to tab i settles, without the try and catch around it
sendSettlesUncaught(C, ok) ==
  IF ok THEN notifyLoop(C, C.i + 1)
  ELSE [C EXCEPT !.rejected = @ \cup {C.i}, !.pc = "failed"]

\* the sendMessage to tab i settles: a rejection is caught and ignored
sendSettles(C, ok) ==
  notifyLoop(IF ok THEN C ELSE [C EXCEPT !.rejected = @ \cup {C.i}], C.i + 1)

\* The content script of tab i handles the STATE_CHANGED message call c has
\* just sent: extensionState = message.state.  Messages to one tab are
\* handled in the order they were sent.  applied[i] is the extensionState of
\* the content script of tab i, for the tabs whose content script is followed.
deliver(B, c) ==
  IF B.calls[c].pc = "send" /\ B.calls[c].i \in DOMAIN B.applied
  THEN [B EXCEPT !.applied[B.calls[c].i] = B.calls[c].after]
  ELSE B

\* ---------------------------------------------------- the content script runs

\* settings the content script may hold after init(): the background's state
\* as GET_STATE returned it, or the fallback without a preset table
InitialStates ==
  { [enabled |-> FALSE, preset |-> "lowbitrate", presets |-> TRUE],
    [enabled |-> TRUE, preset |-> "lowbitrate", presets |-> TRUE],
    [enabled |-> FALSE, preset |-> "lowbitrate", presets |-> FALSE] }

\* states a STATE_CHANGED message carries in the detector model: a key of
\* the table and a key that is not in it
MessageStates == [enabled : BOOLEAN, preset : {"anime", "bogus"}, presets : {TRUE}]

\* outcomes of init() in the detector model: success, no context (init throws
\* before its await), a link error (init throws after its await)
DetectorOutcomes == {"ok", "nogl", "link"}

\* the content script has run init() on a page whose videos are not in the
\* document yet
Init ==
  /\ videos = [v \in Videos |-> NewVideo]
  /\ procs = [p \in Procs |-> FreeProc]
  /\ tasks = [p \in Procs |-> NoTask]
  /\ processedVideos = [v \in Videos |-> NoInfo]
  /\ extensionState \in InitialStates
  /\ microtasks = <<>>
  /\ addedNodes = <<>>
  /\ metaListeners = {}
  /\ endListeners = {}
  /\ failedVideos = {}
  /\ hostDRM \in BOOLEAN
  /\ used = [page |-> 0, messages |-> 0, calls |-> 0]
  /\ bg = [state |-> BackgroundState, tabs |-> <<>>, applied |-> <<>>,
          calls |-> [c \in Requests |-> NoCall]]
  /\ clock = 0
  /\ frag = NoFragment

\* page script inserts a video into the document
InsertVideo(v) ==
  /\ ~videos[v].inDoc
  /\ PageEvent(queueObservers(
       [Now EXCEPT !.videos[v].inDoc = TRUE,
                   !.added = IF \E i \in 1..Len(@) : @[i] = v THEN @ ELSE Append(@, v)]))

\* page script removes a video from the document
RemoveVideo(v) ==
  /\ videos[v].inDoc
  /\ PageEvent(queueObservers([Now EXCEPT !.videos[v].inDoc = FALSE]))

\* the video scrolls out of or into the viewport
Scroll(v) ==
  /\ v \in Videos
  /\ PageEvent([Now EXCEPT !.videos[v].shown = ~@])

\* page script attaches MediaKeys to the video
SetMediaKeys(v) ==
  /\ ~videos[v].mediaKeys
  /\ PageEvent([Now EXCEPT !.videos[v].mediaKeys = TRUE])

\* the media pipeline has the metadata; the browser fires loadedmetadata
LoadedMetadata(v, outcome) ==
  /\ microtasks = <<>>
  /\ videos[v].media = MediaNothing
  /\ LET s1 == [Now EXCEPT !.videos[v].media = MediaMeta] IN
     IF v \in metaListeners
     THEN PageEvent(processVideo([s1 EXCEPT !.metaL = @ \ {v}], v, outcome))
     ELSE PageEvent(s1)

\* the media pipeline has decoded a frame; it happens at most once per load,
\* so it is bounded by the events that start a load
LoadedData(v) ==
  /\ videos[v].media = MediaMeta
  /\ Becomes([Now EXCEPT !.videos[v].media = MediaData])

\* playback reaches the end; the browser fires ended
Ended(v) ==
  /\ microtasks = <<>>
  /\ videos[v].media = MediaData
  /\ v \in endListeners
  /\ PageEvent(disableProcessing(Now, v))

\* the media element is reset (load(), a new src); the browser fires emptied
Emptied(v) ==
  /\ microtasks = <<>>
  /\ videos[v].media # MediaNothing
  /\ LET s1 == [Now EXCEPT !.videos[v].media = MediaNothing] IN
     IF v \in endListeners THEN PageEvent(disableProcessing(s1, v)) ELSE PageEvent(s1)

\* the background's STATE_CHANGED message arrives
StateChanged(state, outcomes) ==
  /\ microtasks = <<>>
  /\ MessageEvent(handleStateChanged(Now, state, outcomes))

\* the oldest microtask runs
Microtask(outcomes) ==
  /\ microtasks # <<>>
  /\ LET m == Head(microtasks)
         s0 == [Now EXCEPT !.mq = Tail(@)]
     IN CASE m.k = "init" ->
               Becomes([s0 EXCEPT !.procs[m.p] = initCont(@),
                                  !.mq = Append(@, [k |-> "enable", p |-> m.p])])
          [] m.k = "enable" -> Becomes(enableProcessingCont(s0, m.p))
          [] OTHER -> Becomes(notifyObservers(s0, outcomes))

\* the browser runs an animation frame callback
Frame(p) ==
  /\ microtasks = <<>>
  /\ procs[p].raf > 0
  /\ Becomes([Now EXCEPT !.procs[p] = runFrame(@, videos[procs[p].video], clock)])

Next ==
  \/ \E v \in Videos : InsertVideo(v)
  \/ \E v \in Videos : RemoveVideo(v)
  \/ \E v \in Videos : Scroll(v)
  \/ \E v \in Videos : SetMediaKeys(v)
  \/ \E v \in Videos, o \in DetectorOutcomes : LoadedMetadata(v, o)
  \/ \E v \in Videos : LoadedData(v)
  \/ \E v \in Videos : Ended(v)
  \/ \E v \in Videos : Emptied(v)
  \/ \E s \in MessageStates, os \in [Videos -> DetectorOutcomes] : StateChanged(s, os)
  \/ \E os \in [Videos -> DetectorOutcomes] : Microtask(os)
  \/ \E p \in Procs : Frame(p)

Spec == Init /\ [][Next]_vars

\* --------------------------------------- the detector on a page with its videos

\* media states a video of the page is in when the content script starts
LoadedMedia == {MediaNothing, MediaMeta, MediaData}

\* The content script has run init() on a page whose videos are in the
\* document: findVideos() has called processVideo for each of them, and the
\* enableProcessing calls it made are suspended at their await.
InitPage(medias, shows, outcomes, displays) ==
  \E e \in InitialStates, ms \in medias, sh \in shows,
     os \in [Videos -> outcomes], ds \in displays :
    LET st == findVideos(
                [ videos |-> [v \in Videos |->
                                [NewVideo EXCEPT !.inDoc = TRUE, !.media = ms[v],
                                                 !.shown = sh[v],
                                                 !.clientWidth = ds[v].clientWidth,
                                                 !.droppedPct = ds[v].droppedPct]],
                  procs |-> [p \in Procs |-> FreeProc],
                  tasks |-> [p \in Procs |-> NoTask],
                  table |-> [v \in Videos |-> NoInfo],
                  ext |-> e, mq |-> <<>>, added |-> <<>>, metaL |-> {}, endL |-> {},
                  failed |-> {}, hostDRM |-> FALSE, clock |-> 0, overflow |-> FALSE ],
                os)
    IN /\ videos = st.videos
       /\ procs = st.procs
       /\ tasks = st.tasks
       /\ processedVideos = st.table
       /\ extensionState = st.ext
       /\ microtasks = st.mq
       /\ addedNodes = st.added
       /\ metaListeners = st.metaL
       /\ endListeners = st.endL
       /\ failedVideos = st.failed
       /\ hostDRM = st.hostDRM
       /\ used = [page |-> 0, messages |-> 0, calls |-> 0]
       /\ bg = [state |-> BackgroundState, tabs |-> <<>>, applied |-> <<>>,
                calls |-> [c \in Requests |-> NoCall]]
       /\ clock = 0
       /\ frag = NoFragment

\* every video of the page is in the viewport
InView == [v \in Videos |-> TRUE]

\* what a video displays when nothing else is said: a box of the size of
\* the stream, no dropped frames
PlainDisplay == [clientWidth |-> NewVideo.clientWidth, droppedPct |-> NewVideo.droppedPct]

InitPass ==
  InitPage([Videos -> LoadedMedia], {InView}, DetectorOutcomes,
           {[v \in Videos |-> PlainDisplay]})

NextPass ==
  \/ \E v \in Videos, o \in DetectorOutcomes : LoadedMetadata(v, o)
  \/ \E s \in MessageStates, os \in [Videos -> DetectorOutcomes] : StateChanged(s, os)
  \/ \E os \in [Videos -> DetectorOutcomes] : Microtask(os)
  \/ \E p \in Procs : Frame(p)

SpecPass == InitPass /\ [][NextPass]_vars

\* ------------------------------------------ the detector and the quality advisory

\* what the videos of the page display: a box of the size of the stream, or
\* a box twice as wide with a tenth of the frames dropped
Displays ==
  { PlainDisplay,
    [clientWidth |-> 2 * NewVideo.clientWidth, droppedPct |-> 10] }

\* as InitPass, with a video that has decoded data and a plain display, and
\* a video that has not loaded or has decoded data, for which the estimator
\* computes one or the other score and recommendation
InitAdvisory ==
  InitPage({ms \in [Videos -> {MediaNothing, MediaData}] : ms["a"] = MediaData},
           {InView},
           {"ok"},
           {ds \in [Videos -> Displays] : ds["a"] = PlainDisplay})

NextAdvisory ==
  \/ \E v \in Videos, o \in DetectorOutcomes : LoadedMetadata(v, o)
  \/ \E s \in MessageStates, os \in [Videos -> DetectorOutcomes] : StateChanged(s, os)
  \/ \E os \in [Videos -> DetectorOutcomes] : Microtask(os)
  \/ \E p \in Procs : Frame(p)

SpecAdvisory == InitAdvisory /\ [][NextAdvisory]_vars

\* --------------------------------------------- the detector and any preset key

\* states a STATE_CHANGED message carries after SET_PRESET messages with any
\* key: a key of the table, a key no object has, a key every object
\* inherits, and the empty key
AnyKeyStates ==
  [enabled : BOOLEAN, preset : {"clean", "bogus", "constructor", ""}, presets : {TRUE}]

\* the videos of the page have decoded data
InitPresets ==
  InitPage([Videos -> {MediaData}], {InView}, {"ok"}, {[v \in Videos |-> PlainDisplay]})

NextPresets ==
  \/ \E s \in AnyKeyStates, os \in [Videos -> DetectorOutcomes] : StateChanged(s, os)
  \/ \E os \in [Videos -> DetectorOutcomes] : Microtask(os)
  \/ \E p \in Procs : Frame(p)

SpecPresets == InitPresets /\ [][NextPresets]_vars

\* --------------------------------- the detector and videos that become valid

\* The videos of the page are in the document when the content script starts,
\* loaded or not and inside the viewport or not; session creation succeeds.
InitLive ==
  InitPage([Videos -> LoadedMedia], [Videos -> BOOLEAN], {"ok"},
           {[v \in Videos |-> PlainDisplay]})

\* the media pipeline of a video goes on loading
MediaLoads ==
  \/ \E v \in Videos : LoadedMetadata(v, "ok")
  \/ \E v \in Videos : LoadedData(v)

\* the event loop runs the oldest microtask
RunsMicrotask == \E os \in [Videos -> {"ok"}] : Microtask(os)

\* the browser runs the animation frame callbacks it holds
RunsFrame == \E p \in Procs : Frame(p)

NextLive ==
  \/ \E v \in Videos : Scroll(v)
  \/ MediaLoads
  \/ RunsMicrotask
  \/ RunsFrame

\* The event loop does not stop: a queued microtask is run, a held animation
\* frame callback is run, and a video that is loading gets its metadata and
\* its data.  Scrolling is the user's and may stop at any time.
SpecLive ==
  /\ InitLive
  /\ [][NextLive]_vars
  /\ WF_vars(MediaLoads)
  /\ WF_vars(RunsMicrotask)
  /\ WF_vars(RunsFrame)

\* ------------------------------------ the detector with enableProcessing called

\* a task of the content script calls enableProcessing(video)
CallEnableProcessing(v, outcome) ==
  /\ microtasks = <<>>
  /\ CallEvent(enableProcessing(Now, v, outcome))

\* The videos of the page load, sessions are created at discovery, and
\* enableProcessing is also called directly, on any video and at any time
\* between tasks.
NextCalls ==
  \/ \E v \in Videos, o \in DetectorOutcomes : LoadedMetadata(v, o)
  \/ \E os \in [Videos -> DetectorOutcomes] : Microtask(os)
  \/ \E v \in Videos, o \in DetectorOutcomes : CallEnableProcessing(v, o)

SpecCalls == InitPass /\ [][NextCalls]_vars

\* ------------------------------------------- a session driven through its API

\* A VideoProcessor has been constructed for video "a" by a caller that
\* awaits init() and then calls start, stop, setPreset and destroy in any
\* order, while the media pipeline changes what the video reports.
InitSession(positions) ==
  /\ \E d \in BOOLEAN, m \in SessionMedia, pos \in positions :
       videos = [v \in Videos |->
                   IF v = "a"
                   THEN [NewVideo EXCEPT !.inDoc = d, !.media = m, !.parentPosition = pos]
                   ELSE NewVideo]
  /\ \E t \in PresetValues :
       procs = [p \in Procs |-> IF p = 1 THEN NewVideoProcessor("a", t) ELSE FreeProc]
  /\ tasks = [p \in Procs |-> NoTask]
  /\ processedVideos = [v \in Videos |-> NoInfo]
  /\ extensionState = [enabled |-> TRUE, preset |-> "lowbitrate", presets |-> TRUE]
  /\ microtasks = <<>>
  /\ addedNodes = <<>>
  /\ metaListeners = {}
  /\ endListeners = {}
  /\ failedVideos = {}
  /\ hostDRM = FALSE
  /\ used = [page |-> 0, messages |-> 0, calls |-> 0]
  /\ bg = [state |-> BackgroundState, tabs |-> <<>>, applied |-> <<>>,
          calls |-> [c \in Requests |-> NoCall]]
  /\ clock = 0
  /\ frag = NoFragment

\* the video's parent has the default position
InitProc == InitSession({"static"})

\* await processor.init()
CallInit(p, outcome) ==
  /\ procs[p].phase = "new"
  /\ LET P == initSync(procs[p], videos[procs[p].video], outcome) IN
     Becomes([Now EXCEPT !.procs[p] = IF P.phase = "compiling" THEN initCont(P) ELSE P,
                         !.videos[procs[p].video] = positionParent(@)])

\* processor.start()
CallStart(p) ==
  /\ procs[p].phase = "ready"
  /\ Becomes([Now EXCEPT !.procs[p] = start([@ EXCEPT !.threw = FALSE],
                                            videos[procs[p].video], clock)])

\* processor.stop()
CallStop(p) ==
  /\ procs[p].phase = "ready"
  /\ Becomes([Now EXCEPT !.procs[p] = stop([@ EXCEPT !.threw = FALSE])])

\* processor.setPreset(preset)
CallSetPreset(p, preset) ==
  /\ procs[p].phase = "ready"
  /\ Becomes([Now EXCEPT !.procs[p] = setPreset([@ EXCEPT !.threw = FALSE], preset)])

\* processor.destroy()
CallDestroy(p) ==
  /\ procs[p].phase = "ready"
  /\ Becomes([Now EXCEPT !.procs[p] = destroy([@ EXCEPT !.threw = FALSE])])

\* the media pipeline reports another readyState or intrinsic size
MediaChange(v, m) ==
  /\ videos[v].media # m
  /\ Becomes([Now EXCEPT !.videos[v].media = m])

NextProc ==
  \/ \E p \in Procs, o \in InitOutcomes : CallInit(p, o)
  \/ \E p \in Procs : CallStart(p)
  \/ \E p \in Procs : CallStop(p)
  \/ \E p \in Procs, t \in PresetValues : CallSetPreset(p, t)
  \/ \E p \in Procs : CallDestroy(p)
  \/ \E m \in SessionMedia : MediaChange("a", m)
  \/ \E p \in Procs : Frame(p)

SpecProc == InitProc /\ [][NextProc]_vars

\* ------------------------------------------------- the background in the browser

\* the service worker has started; the browser has some tabs open
InitBackground(followed) ==
  /\ videos = [v \in Videos |-> NewVideo]
  /\ procs = [p \in Procs |-> FreeProc]
  /\ tasks = [p \in Procs |-> NoTask]
  /\ processedVideos = [v \in Videos |-> NoInfo]
  /\ extensionState = [enabled |-> FALSE, preset |-> "lowbitrate", presets |-> TRUE]
  /\ microtasks = <<>>
  /\ addedNodes = <<>>
  /\ metaListeners = {}
  /\ endListeners = {}
  /\ failedVideos = {}
  /\ hostDRM = FALSE
  /\ used = [page |-> 0, messages |-> 0, calls |-> 0]
  /\ clock = 0
  /\ frag = NoFragment
  /\ \E tabs \in TabLists :
       bg = [state |-> BackgroundState, tabs |-> tabs,
             applied |-> IF followed THEN [j \in 1..Len(tabs) |-> BackgroundState]
                         ELSE <<>>,
             calls |-> [c \in Requests |-> NoCall]]

\* the background alone
InitNotify == InitBackground(FALSE)

\* the background and the content scripts of the tabs, which hold the state
\* GET_STATE returned
InitConverge == InitBackground(TRUE)

BackgroundStep(B) ==
  /\ bg' = B
  /\ UNCHANGED <<videos, procs, tasks, processedVideos, extensionState, microtasks,
                 addedNodes, metaListeners, endListeners, failedVideos, hostDRM, used,
                 clock, frag>>

\* the popup sends SET_ENABLED or SET_PRESET
Request(c, type, value) ==
  /\ bg.calls[c].pc = "none"
  /\ \A d \in Requests : d < c => bg.calls[d].pc # "none"
  /\ BackgroundStep(handleMessage(bg, c, type, value))

\* chrome.tabs.query resolves
QueryResolves(c) ==
  /\ bg.calls[c].pc = "query"
  /\ BackgroundStep(deliver([bg EXCEPT !.calls[c] = notifyAllTabs(@, bg.tabs)], c))

\* chrome.tabs.sendMessage resolves or rejects
SendSettles(c, ok) ==
  /\ bg.calls[c].pc = "send"
  /\ BackgroundStep(deliver([bg EXCEPT !.calls[c] = sendSettles(@, ok)], c))

NextNotify ==
  \/ \E c \in Requests, e \in BOOLEAN : Request(c, "SET_ENABLED", e)
  \/ \E c \in Requests, k \in PresetInputs : Request(c, "SET_PRESET", k)
  \/ \E c \in Requests : QueryResolves(c)
  \/ \E c \in Requests, ok \in BOOLEAN : SendSettles(c, ok)

SpecNotify == InitNotify /\ [][NextNotify]_vars

SpecConverge == InitConverge /\ [][NextNotify]_vars

\* ------------------------------------------- a session attached to its parent

\* the video's parent has any position; the session is initialised, started,
\* stopped and destroyed
InitAttach == InitSession(ParentPositions)

NextAttach ==
  \/ \E p \in Procs, o \in InitOutcomes : CallInit(p, o)
  \/ \E p \in Procs : CallStart(p)
  \/ \E p \in Procs : CallStop(p)
  \/ \E p \in Procs : CallDestroy(p)
  \/ \E p \in Procs : Frame(p)

SpecAttach == InitAttach /\ [][NextAttach]_vars

\* ------------------------------------------------ a session and the page clock

\* a second passes on the page's clock
TimePasses ==
  /\ clock < MaxSeconds * Unit
  /\ clock' = clock + Unit
  /\ UNCHANGED <<videos, procs, tasks, processedVideos, extensionState, microtasks,
                 addedNodes, metaListeners, endListeners, failedVideos, hostDRM, used,
                 bg, frag>>

\* The page was loaded at clock 0; a VideoProcessor is initialised, started
\* and stopped at any later time, and its ticks run as time passes.
NextClock ==
  \/ \E p \in Procs, o \in InitOutcomes : CallInit(p, o)
  \/ \E p \in Procs : CallStart(p)
  \/ \E p \in Procs : CallStop(p)
  \/ \E m \in SessionMedia : MediaChange("a", m)
  \/ \E p \in Procs : Frame(p)
  \/ TimePasses

SpecClock == InitProc /\ [][NextClock]_vars

\* ------------------------------------------------- the shader on one fragment

\* intensities the uniforms are set to, in hundredths
ShaderIntensities == {0, 15, 50, 100}

\* gl.drawArrays is about to run the program on a fragment: the texture
\* around it, the value rand() will return and the uniforms are given
InitShader ==
  /\ videos = [v \in Videos |-> NewVideo]
  /\ procs = [p \in Procs |-> FreeProc]
  /\ tasks = [p \in Procs |-> NoTask]
  /\ processedVideos = [v \in Videos |-> NoInfo]
  /\ extensionState = [enabled |-> TRUE, preset |-> "lowbitrate", presets |-> TRUE]
  /\ microtasks = <<>>
  /\ addedNodes = <<>>
  /\ metaListeners = {}
  /\ endListeners = {}
  /\ failedVideos = {}
  /\ hostDRM = FALSE
  /\ used = [page |-> 0, messages |-> 0, calls |-> 0]
  /\ bg = [state |-> BackgroundState, tabs |-> <<>>, applied |-> <<>>,
          calls |-> [c \in Requests |-> NoCall]]
  /\ clock = 0
  /\ \E a \in TexelColours, b \in TexelColours, rnd \in RandValues,
        d \in ShaderIntensities, m \in ShaderIntensities, h \in ShaderIntensities :
       frag = [NoFragment EXCEPT
                 !.tex = [a |-> a, b |-> b], !.rnd = rnd,
                 !.uniforms = [debanding |-> d, smoothing |-> m, sharpening |-> h]]

\* the GPU runs main() on the fragment
Shade ==
  /\ ~frag.drawn
  /\ frag' = [frag EXCEPT !.drawn = TRUE, !.out = main(frag.tex, frag.rnd, frag.uniforms)]
  /\ UNCHANGED <<videos, procs, tasks, processedVideos, extensionState, microtasks,
                 addedNodes, metaListeners, endListeners, failedVideos, hostDRM, used,
                 bg, clock>>

NextShader == Shade

SpecShader == InitShader /\ [][NextShader]_vars

\* ------------------------------------------------------------------ claims

\* init() resolved and destroy() was not called
Live(p) == procs[p].phase = "ready" /\ ~procs[p].destroyed

\* the step is a run of processFrame on p that got past its guard
TickStep(p) == procs'[p].tick.n # procs[p].tick.n /\ procs'[p].tick.n # 0

\* the step constructs VideoProcessor p
Constructs(p) == procs[p].phase = "free" /\ procs'[p].phase # "free"

\* C1: every video has at most one live VideoProcessor and at most one
\* overlay canvas in the DOM, in every reachable state.
C1_OneSessionPerVideo ==
  \A v \in Videos :
    /\ Cardinality({p \in Procs : procs[p].video = v /\ Live(p)}) <= 1
    /\ Cardinality({p \in Procs : procs[p].video = v /\ procs[p].attached}) <= 1

\* C2: a session that was stopped or destroyed holds no animation frame
\* callback any more, and no run of processFrame has issued a GL call since:
\* the tick scheduled before stop() or destroy() does no GPU work and
\* schedules nothing.
C2_NoTickAfterHalt ==
  \A p \in Procs :
    (procs[p].phase = "ready" /\ (~procs[p].isProcessing \/ procs[p].destroyed))
      => (procs[p].raf = 0 /\ ~procs[p].tickGpu)

\* stop() has halted a session that had a tick scheduled
C2_Witness ==
  \E p \in Procs :
    Live(p) /\ ~procs[p].isProcessing /\ procs[p].cancelled /\ procs[p].raf = 0

\* C3: once enableProcessing has returned through its catch block, the failed
\* object has no canvas in the DOM, no program or texture allocated, no tick
\* scheduled, and the video's entry does not name it.
C3_FailureLeavesNothing ==
  \A p \in Procs :
    tasks[p].pc = "failed" =>
      /\ ~procs[p].attached
      /\ procs[p].gpu \cap {"program", "texture"} = {}
      /\ procs[p].raf = 0
      /\ processedVideos[procs[p].video].processor # p

\* C4: a STATE_CHANGED message that keeps enabled = true constructs no
\* VideoProcessor for a video whose session creation has failed since
\* enhancement was last disabled.
C4_NoRetryWhileEnabled ==
  [][\A p \in Procs :
       (/\ used'.messages # used.messages
        /\ extensionState.enabled /\ extensionState'.enabled
        /\ Constructs(p))
         => procs'[p].video \notin failedVideos]_vars

\* C5: once destroy() has been called on a VideoProcessor it is never running
\* again (isProcessing false), holds no scheduled tick and issues no GL call.
C5_DestroyedIsTerminal ==
  \A p \in Procs :
    procs[p].destroyed =>
      (~procs[p].isProcessing /\ procs[p].raf = 0 /\ ~procs[p].tickGpu)

\* C6: no step constructs a VideoProcessor for a video that the DRM oracle
\* flags as protected at that moment.
C6_NoSessionOnDRM ==
  [][\A p \in Procs :
       Constructs(p) => ~isLikelyDRM(videos'[procs'[p].video], hostDRM)]_vars

\* C7: every step that constructs a VideoProcessor does so for a video that
\* is valid at that moment (positive size, metadata, visible).
C7_CreatedOnValidSource ==
  [][\A p \in Procs :
       Constructs(p) => isVideoValid(videos'[procs'[p].video])]_vars

\* C8: while the content script holds enabled = false and no enableProcessing
\* call is in flight, no VideoProcessor is running and none has its canvas in
\* the DOM.
C8_DisabledMeansNoSession ==
  (/\ ~extensionState.enabled
   /\ microtasks = <<>>
   /\ \A p \in Procs : tasks[p].pc # "await")
    => \A p \in Procs : ~procs[p].isProcessing /\ ~procs[p].attached

\* C9: a VideoProcessor that keeps ticking is the one that its video's entry
\* of the per-video table names, so that ended, emptied and removal destroy
\* it: no session keeps running unreachable from the table, also when the
\* event arrived while the creation was awaiting init().
C9_NoOrphanSession ==
  \A p \in Procs :
    (tasks[p].pc = "done" /\ procs[p].isProcessing)
      => processedVideos[procs[p].video].processor = p

\* C10: destroy() on an Active or Stopped session deletes the texture and the
\* program, takes the canvas out of the DOM, leaves no tick scheduled and
\* isProcessing false, and nulls canvas, gl, program and texture.
C10_DestroyReleases ==
  [][\A p \in Procs :
       (Live(p) /\ procs'[p].destroyed)
         => /\ procs'[p].gpu \cap {"texture", "program"} = {}
            /\ ~procs'[p].attached
            /\ procs'[p].raf = 0
            /\ ~procs'[p].isProcessing
            /\ ~procs'[p].canvas /\ ~procs'[p].gl
            /\ ~procs'[p].program /\ ~procs'[p].texture]_vars

\* destroy() has acted on an Active session whose canvas was in the DOM
C10_Witness ==
  \E p \in Procs :
    /\ procs[p].destroyed /\ procs[p].cancelled /\ ~procs[p].threw
    /\ videos[procs[p].video].inDoc

\* C11: after destroy() every GPU object the session created during init()
\* (both shaders, the program, the texture, both buffers) has been released:
\* a destroyed VideoProcessor holds no unreleased GPU object.
C11_DestroyReleasesAll ==
  \A p \in Procs : procs[p].destroyed => procs[p].gpu = {}

\* C12: a second or later destroy() call on a VideoProcessor raises no error,
\* cancels no animation frame, deletes no GPU object, removes no canvas, and
\* leaves the object as the first call left it: not running, no tick held,
\* canvas, gl, program and texture null, the preset unchanged.
C12_DestroyIdempotent ==
  [][\A p \in Procs :
       (procs[p].destroys >= 1 /\ procs'[p].destroys > procs[p].destroys)
         => /\ ~procs'[p].threw
            /\ ~procs'[p].cancelled
            /\ procs'[p].gpu = procs[p].gpu
            /\ procs'[p].attached = procs[p].attached
            /\ procs'[p].raf = 0 /\ procs'[p].animationId = "null"
            /\ ~procs'[p].isProcessing
            /\ ~procs'[p].canvas /\ ~procs'[p].gl
            /\ ~procs'[p].program /\ ~procs'[p].texture
            /\ procs'[p].preset = procs[p].preset]_vars

\* destroy() has returned a second time on a session that init() had set up
C12_Witness ==
  \E p \in Procs :
    /\ procs[p].destroys >= 2
    /\ "vertexShader" \in procs[p].gpu
    /\ procs[p].cw > 0

\* C13: a call of enableProcessing while the video's entry holds a processor
\* constructs no VideoProcessor for that video (no canvas, context, program
\* or texture is created), leaves the existing session as it is, and leaves
\* the entry naming the same processor.
C13_EnableOnBoundIsNoOp ==
  [][used'.calls > used.calls =>
       \A v \in Videos :
         processedVideos[v].processor # 0 =>
           /\ processedVideos'[v] = processedVideos[v]
           /\ \A p \in Procs :
                (procs'[p].video = v \/ procs[p].video = v)
                  => (procs'[p] = procs[p] /\ tasks'[p] = tasks[p])]_vars

\* enableProcessing has been called directly while a video's entry held a
\* running session
C13_Witness ==
  /\ used.calls > 0
  /\ \E v \in Videos :
       /\ processedVideos[v].processor # 0
       /\ procs[processedVideos[v].processor].isProcessing
       /\ Cardinality({p \in Procs : procs[p].video = v}) = 1

\* C14: an Active session always has exactly one tick scheduled, so the loop
\* does not stop by itself; every tick of it raises no error and schedules
\* one next tick whether or not the source is ready, issues one texture
\* upload and one draw call when readyState >= HAVE_CURRENT_DATA, and issues
\* neither when the source is not ready.
C14_TickAlwaysReschedules ==
  /\ [](\A p \in Procs : (Live(p) /\ procs[p].isProcessing) => procs[p].raf = 1)
  /\ [][\A p \in Procs :
          (Live(p) /\ TickStep(p)) =>
            LET ready == videos[procs[p].video].media.readyState >= HAVE_CURRENT_DATA
                T == procs'[p].tick
            IN /\ ~procs'[p].threw
               /\ procs'[p].isProcessing
               /\ procs'[p].raf = 1 /\ procs'[p].animationId = "live"
               /\ ready => (T.uploads = 1 /\ T.draws = 1)
               /\ ~ready => (T.uploads = 0 /\ T.draws = 0)]_vars

\* an Active session has run a tick after its first one on a source that was
\* not ready, and holds the next tick
C14_Witness ==
  \E p \in Procs :
    /\ Live(p) /\ procs[p].isProcessing
    /\ procs[p].tick.n = 2 /\ procs[p].tick.uploads = 0
    /\ procs[p].raf = 1

\* C15: a tick resizes the canvas exactly when its pixel size differs from
\* the video's intrinsic size, after a resizing tick the canvas has the
\* video's intrinsic size, and a tick that follows a resizing tick with the
\* intrinsic size unchanged (0 included) does not resize.
C15_LazyResize ==
  [][\A p \in Procs :
       (Live(p) /\ TickStep(p)) =>
         LET M == videos[procs[p].video].media
             T == procs'[p].tick
             B == procs[p].tick
         IN /\ T.resized <=> (procs[p].cw # M.videoWidth \/ procs[p].ch # M.videoHeight)
            /\ T.resized => (procs'[p].cw = M.videoWidth /\ procs'[p].ch = M.videoHeight)
            /\ (B.n # 0 /\ B.resized /\ B.w = M.videoWidth /\ B.h = M.videoHeight)
                 => ~T.resized]_vars

\* C16: the three intensities a tick binds as uniforms are the debanding,
\* smoothing and sharpening of one triple, the one that setPreset was given
\* last before the tick began (or the constructor, when setPreset was not
\* called): the value of preset when the tick begins.
C16_TickBindsLatestPreset ==
  [][\A p \in Procs :
       (Live(p) /\ TickStep(p) /\ procs'[p].tick.uploads = 1)
         => procs'[p].tick.uniforms = procs[p].preset]_vars

\* a tick has bound a triple that is not the constructor's: setPreset was
\* called before the tick
C16_Witness ==
  \E p \in Procs :
    /\ Live(p) /\ procs[p].tick.uploads = 1
    /\ procs[p].tick.uniforms # procs[p].options
    /\ procs[p].tick.uniforms = procs[p].preset

\* C17: a setPreset call that changes the parameters changes nothing else of
\* the session, Active or Stopped: program, texture, canvas, context, running
\* flag, pending tick and the set of GPU objects stay as they were.
C17_SetPresetOnlySetsPreset ==
  [][\A p \in Procs :
       (Live(p) /\ procs'[p].preset # procs[p].preset)
         => /\ procs'[p] = [procs[p] EXCEPT !.preset = procs'[p].preset, !.threw = FALSE]
            /\ videos' = videos]_vars

\* setPreset has replaced the parameters of an Active session that still
\* holds its tick and its GPU objects
C17_Witness ==
  \E p \in Procs :
    /\ Live(p) /\ procs[p].isProcessing /\ procs[p].raf = 1
    /\ procs[p].preset # procs[p].options
    /\ procs[p].tick.n # 0 /\ procs[p].tick.uniforms # procs[p].preset
    /\ {"program", "texture"} \subseteq procs[p].gpu

\* C18: stop() on a running session leaves no tick scheduled and keeps the
\* program, the texture, the canvas, the context and the parameters; start()
\* on a stopped session makes it running with one tick scheduled, raises no
\* error, and creates or deletes no GPU object and no canvas, in every
\* stop/start cycle.
C18_StopKeepsStartResumes ==
  [][\A p \in Procs :
       /\ (Live(p) /\ Live(p)' /\ procs[p].isProcessing /\ ~procs'[p].isProcessing)
            => /\ procs'[p].raf = 0
               /\ procs'[p] = [procs[p] EXCEPT !.isProcessing = FALSE,
                                               !.raf = 0,
                                               !.animationId = "null",
                                               !.cancelled = procs'[p].cancelled,
                                               !.tickGpu = FALSE,
                                               !.tick = NoTick,
                                               !.threw = FALSE]
       /\ (Live(p) /\ ~procs[p].isProcessing /\ procs'[p].isProcessing)
            => /\ ~procs'[p].threw
               /\ procs'[p].raf = 1 /\ procs'[p].animationId = "live"
               /\ procs'[p].gpu = procs[p].gpu
               /\ procs'[p].program /\ procs'[p].texture
               /\ procs'[p].canvas /\ procs'[p].gl
               /\ procs'[p].attached = procs[p].attached
               /\ procs'[p].preset = procs[p].preset]_vars

\* a session that stop() halted while it held a tick is running again with
\* the program and the texture of init()
C18_Witness ==
  \E p \in Procs :
    /\ Live(p) /\ procs[p].isProcessing /\ procs[p].cancelled
    /\ procs[p].raf = 1
    /\ {"program", "texture"} \subseteq procs[p].gpu

\* C19: a rejected sendMessage never ends the fan-out of notifyAllTabs: the
\* handler of SET_ENABLED or SET_PRESET does not reject, while it loops it has
\* sent exactly once to every tab with an id up to its position and to no
\* other tab, and when it has returned it has sent exactly once to every tab
\* with an id, whichever sends were rejected, and has returned the state it
\* had set.
C19_FanOutSurvivesRejection ==
  \A c \in Requests :
    LET C == bg.calls[c] IN
    /\ C.pc # "failed"
    /\ C.pc \in {"send", "done"} =>
         \A j \in 1..Len(C.tabs) :
           C.sent[j] = IF C.tabs[j] /\ j <= C.i THEN 1 ELSE 0
    /\ C.pc = "done" =>
         /\ C.i = Len(C.tabs) + 1
         /\ C.ret = C.after
         /\ IF C.type = "SET_ENABLED"
            THEN C.ret.enabled = C.value
            ELSE C.ret.preset = C.value

\* a handler has returned after the send to a tab was rejected and a later
\* tab was sent to
C19_Witness ==
  \E c \in Requests :
    LET C == bg.calls[c] IN
    /\ C.pc = "done"
    /\ \E j \in C.rejected : \E k \in (j + 1)..Len(C.tabs) : C.sent[k] = 1

\* C20: a failed session creation touches no other video. A STATE_CHANGED
\* pass with enabled = true constructs a VideoProcessor for every registered
\* video without a session and updates the preset of every session, leaving
\* it running, whatever the other creations of the pass do; the step in
\* which a creation lands in the catch block changes no other processor; and
\* once all calls have completed while enabled, every registered video whose
\* own creation did not fail has a running session.
C20_FailureIsIsolated ==
  /\ [](\A v \in Videos :
          (/\ extensionState.enabled /\ microtasks = <<>>
           /\ processedVideos[v].has /\ ~processedVideos[v].drm
           /\ v \notin failedVideos)
            => /\ processedVideos[v].processor # 0
               /\ procs[processedVideos[v].processor].isProcessing)
  /\ [][/\ (used'.messages > used.messages /\ extensionState'.enabled) =>
            \A v \in Videos :
              (videos[v].inDoc /\ processedVideos[v].has /\ ~processedVideos[v].drm) =>
                IF processedVideos[v].processor # 0
                THEN LET p == processedVideos[v].processor IN
                     procs'[p] = [procs[p] EXCEPT
                                    !.preset = getPresetSettings(extensionState')]
                ELSE \E p \in Procs : Constructs(p) /\ procs'[p].video = v
        /\ \A p \in Procs :
             (tasks[p].pc = "await" /\ tasks'[p].pc = "failed") =>
               \A q \in Procs \ {p} : procs'[q] = procs[q]]_vars

\* one pass has constructed a VideoProcessor for each of the two videos; the
\* creation failed for the first, and the second has a running session
C20_Witness ==
  /\ microtasks = <<>>
  /\ used.messages > 0
  /\ "a" \in failedVideos /\ processedVideos["a"].processor = 0
  /\ processedVideos["b"].processor # 0
  /\ procs[processedVideos["b"].processor].isProcessing
  /\ \E p \in Procs : procs[p].video = "a" /\ procs[p].phase = "failed"

\* the three intensities of a drawn fragment are 0
AllOff == frag.uniforms = [debanding |-> 0, smoothing |-> 0, sharpening |-> 0]

\* C21: with the three intensities 0 the output colour is the input colour;
\* a stage whose intensity is 0 does not contribute: with u_debanding = 0 the
\* output does not depend on the noise, with u_smoothing = 0 it is the output
\* of debanding and sharpening alone, with u_sharpening = 0 it is the output
\* of debanding and smoothing alone.
C21_ZeroIntensitySkipsStage ==
  frag.drawn =>
    LET T == frag.tex
        u == frag.uniforms
        debanded == deband(texture2D(T, 0, 0), frag.rnd, u.debanding)
    IN /\ AllOff => frag.out = texture2D(T, 0, 0)
       /\ u.debanding = 0 => \A rnd \in RandValues : main(T, rnd, u) = frag.out
       /\ u.smoothing = 0 => frag.out = clamp(sharp(T, debanded, u.sharpening))
       /\ u.sharpening = 0 => frag.out = clamp(smooth(T, debanded, u.smoothing))

\* a fragment of a texture that is not uniform was drawn with every stage off
C21_Witness ==
  /\ frag.drawn
  /\ AllOff
  /\ frag.tex.a = Grey(Unit \div 2)
  /\ frag.tex.b = Grey(Unit)
  /\ frag.rnd # Unit \div 2
  /\ frag.out = Grey(Unit \div 2)

\* the signal the smoothing stage produces from texture T, as a texture
SmoothedSignal(T, u_smoothing) ==
  [ a |-> smooth(T, T.a, u_smoothing),
    b |-> smooth(Shifted(T), T.b, u_smoothing) ]

\* C22: the stages run in the order debanding, smoothing, sharpening and each
\* works on the signal the preceding stage produced: with debanding off, the
\* output is the sharpening stage applied to the smoothed signal, the output
\* of smoothing at the fragment and at the fragments around it.
C22_StageReadsPrecedingStage ==
  frag.drawn /\ frag.uniforms.debanding = 0 =>
    LET S == SmoothedSignal(frag.tex, frag.uniforms.smoothing)
    IN frag.out = clamp(sharp(S, texture2D(S, 0, 0), frag.uniforms.sharpening))

\* C23: every channel of the output colour lies in [0,1], whatever the
\* texture, the noise and the intensities are.
C23_OutputInUnitRange ==
  frag.drawn => \A ch \in Channels : 0 <= frag.out[ch] /\ frag.out[ch] <= Unit

\* a white fragment between black neighbours was drawn at full sharpening,
\* where the unsharp mask overshoots white
C23_Witness ==
  /\ frag.drawn
  /\ frag.tex = [a |-> Grey(Unit), b |-> Grey(0)]
  /\ frag.uniforms.sharpening = 100
  /\ \E ch \in Channels : mainUnclamped(frag.tex, frag.rnd, frag.uniforms)[ch] > Unit
  /\ frag.out = Grey(Unit)

\* the texture around the fragment has one colour
UniformTexture == frag.tex.a = frag.tex.b

\* C24: on a texture of uniform colour the smoothing stage alone and the
\* sharpening stage alone return the centre colour, at every intensity in
\* (0,1]: smoothPixel's normalised average is that colour and the stages
\* leave it as it is, and so does main() when one of them is the only stage on.
C24_UniformIsFixedPoint ==
  frag.drawn /\ UniformTexture =>
    LET T == frag.tex
        c == texture2D(T, 0, 0)
        u == frag.uniforms
    IN /\ smoothPixel(T, c) = c
       /\ \A i \in ShaderIntensities \ {0} : smooth(T, c, i) = c /\ sharp(T, c, i) = c
       /\ u.debanding = 0 /\ (u.smoothing = 0 \/ u.sharpening = 0) => frag.out = c

\* a fragment of a uniform texture of a colour with unequal channels was
\* drawn with smoothing as the only stage
C24_Witness ==
  /\ frag.drawn
  /\ UniformTexture
  /\ frag.tex.a = [r |-> Unit, g |-> 0, b |-> Unit]
  /\ frag.uniforms = [debanding |-> 0, smoothing |-> 50, sharpening |-> 0]
  /\ frag.out = frag.tex.a

\* the step is the first run of processFrame since p was constructed
FirstTick(p) ==
  /\ TickStep(p)
  /\ ~procs[p].isProcessing
  /\ ~procs[p].cancelled
  /\ procs[p].tick.n = 0

\* C25: the value bound as u_time is the time since the session started: it
\* is less than a second at the session's first tick, and from one tick of
\* the session to the next it does not decrease.
C25_TimeSinceSessionStart ==
  [][\A p \in Procs :
       (Live(p) /\ TickStep(p) /\ procs'[p].tick.time # -1) =>
         /\ FirstTick(p) => procs'[p].tick.time < Unit
         /\ procs[p].tick.time # -1 => procs'[p].tick.time >= procs[p].tick.time]_vars

\* the step runs init() on p
Attaches(p) == procs[p].phase = "new" /\ procs'[p].phase # "new"

\* C26: the position of the video's parent changes only when init() attaches
\* the overlay and the parent's computed position is static, and then to
\* relative; a parent with another position keeps it; the overlay canvas has
\* pointer-events none from its creation on.
C26_ParentPositionKept ==
  /\ [](\A p \in Procs :
          procs[p].phase \notin {"free", "new"} => procs[p].pointerEvents = "none")
  /\ [][\A v \in Videos :
          videos'[v].parentPosition # videos[v].parentPosition =>
            /\ videos[v].parentPosition = "static"
            /\ videos'[v].parentPosition = "relative"
            /\ \E p \in Procs : Attaches(p) /\ procs[p].video = v]_vars

\* an overlay is attached in a parent whose position is absolute
C26_Witness ==
  \E p \in Procs :
    /\ procs[p].phase = "ready"
    /\ procs[p].attached
    /\ procs[p].pointerEvents = "none"
    /\ videos[procs[p].video].parentPosition = "absolute"

\* the state without what the quality estimator read and computed
Advised(st) ==
  [st EXCEPT
     !.videos = [v \in Videos |->
                   [@[v] EXCEPT !.clientWidth = PlainDisplay.clientWidth,
                                !.droppedPct = PlainDisplay.droppedPct]],
     !.table = [v \in Videos |-> [@[v] EXCEPT !.quality = NoQuality]]]

\* C27: the quality estimates never influence the pipeline.  Every handler
\* of the content script, run on the state and on the state with other
\* estimates, leaves the same sessions, the same parameters bound at their
\* ticks, the same table and the same pending work: two runs that differ only
\* in the estimates stay equal step by step in everything else.
C27_AdvisoryHasNoInfluence ==
  /\ \A v \in Videos, o \in DetectorOutcomes :
       Advised(processVideo(Now, v, o)) = Advised(processVideo(Advised(Now), v, o))
  /\ \A state \in MessageStates, os \in [Videos -> DetectorOutcomes] :
       Advised(handleStateChanged(Now, state, os))
         = Advised(handleStateChanged(Advised(Now), state, os))
  /\ \A os \in [Videos -> DetectorOutcomes] :
       Advised(notifyObservers(Now, os)) = Advised(notifyObservers(Advised(Now), os))
  /\ \A p \in Procs :
       /\ procs[p].phase = "compiling" => initCont(Advised(Now).procs[p]) = initCont(procs[p])
       /\ tasks[p].pc = "await" =>
            Advised(enableProcessingCont(Now, p)) = Advised(enableProcessingCont(Advised(Now), p))
       /\ procs[p].raf > 0 =>
            runFrame(procs[p], videos[procs[p].video], clock)
              = runFrame(procs[p], Advised(Now).videos[procs[p].video], clock)

\* two videos of the same stream for which the estimator recommends different
\* presets have sessions that bound the same parameters at a tick
C27_Witness ==
  /\ processedVideos["a"].quality.preset = "clean"
  /\ processedVideos["b"].quality.preset = "lowbitrate"
  /\ processedVideos["a"].processor # 0
  /\ processedVideos["b"].processor # 0
  /\ procs[processedVideos["a"].processor].tick.uniforms # NoUniforms
  /\ procs[processedVideos["a"].processor].tick.uniforms
       = procs[processedVideos["b"].processor].tick.uniforms

\* C28: for an initialised session that was not destroyed, between ticks
\* exactly one tick callback is pending while isProcessing is true and none
\* while it is false, after any calls of start(), stop(), setPreset() and any
\* ticks; start() on an Active session starts no second chain.
C28_OnePendingTick ==
  \A p \in Procs :
    Live(p) => procs[p].raf = (IF procs[p].isProcessing THEN 1 ELSE 0)

\* a session that was stopped and started again has run a tick from a
\* callback and holds one callback
C28_Witness ==
  \E p \in Procs :
    /\ Live(p)
    /\ procs[p].isProcessing
    /\ procs[p].cancelled
    /\ procs[p].tick.n = 2
    /\ procs[p].raf = 1

\* every handler that was started has returned
Quiescent == \A c \in Requests : bg.calls[c].pc \in {"none", "done"}

\* the content script of tab j received the notification of every handler
ReceivedAll(j) ==
  /\ \E c \in Requests : bg.calls[c].pc = "done"
  /\ \A c \in Requests :
       bg.calls[c].pc = "done" => (bg.calls[c].sent[j] = 1 /\ j \notin bg.calls[c].rejected)

\* C29: once all SET_ENABLED and SET_PRESET handlers and their notifications
\* have completed, the state held by every content script that received the
\* notifications is the background's state.
C29_SettingsConverge ==
  Quiescent =>
    \A j \in 1..Len(bg.tabs) : ReceivedAll(j) => bg.applied[j] = bg.state

\* C30: the parameters the detector hands to a session, at its construction
\* and at setPreset, are an entry of the background's preset table or the
\* default; a key that is not in the table yields the default; every
\* intensity bound at a tick lies in [0,1].
C30_PresetFromTableOrDefault ==
  /\ \A p \in Procs :
       procs[p].phase # "free" =>
         /\ procs[p].options \in PresetValues
         /\ procs[p].preset \in PresetValues
         /\ procs[p].tick.uniforms # NoUniforms =>
              \A x \in {"debanding", "smoothing", "sharpening"} :
                procs[p].tick.uniforms[x] \in 0..100
  /\ extensionState.preset \notin PresetKeys \cup {""} =>
       getPresetSettings(extensionState) = DefaultPreset

\* C31: a video of the document that becomes valid and stays valid is
\* eventually registered by the detector, and, if enhancement is enabled, has
\* a session, whether it was valid or not when the detector discovered it.
C31_ValidVideoEventuallyRegistered ==
  \A v \in Videos :
    <>[](videos[v].inDoc /\ isVideoValid(videos[v]))
      => <>(/\ processedVideos[v].has
            /\ extensionState.enabled => processedVideos[v].processor # 0)

====
